---- MODULE Spec2Model ----
(***************************************************************************)
(* Model of main_api.py: the refresh loop fetch_tennis_data, the global    *)
(* tennis_matches it publishes, and the two query handlers                 *)
(* get_tennis_matches and get_match_details that read it from the server   *)
(* thread while the loop runs in its own thread.                           *)
(*                                                                         *)
(* The adapters (BetsapiPrematch, RapidInplayOddsFetcher) and TennisMerger *)
(* are imported by main_api.py but their code is not part of the sources;  *)
(* their outcomes are modelled from the specification's contracts.         *)
(***************************************************************************)
EXTENDS Integers, Sequences, FiniteSets, TLC

\* ------------------------------------------------------------------ bounds
MaxKey == 2        \* distinct real-world matches a provider can report
MaxCycle == 2      \* refresh cycles explored
MaxTime == 2       \* clock ticks explored

\* --------------------------------------------------------- program constants
NormalDelay == 60  \* asyncio.sleep(60) after a published cycle
BackoffDelay == 10 \* asyncio.sleep(10) in the except block

Keys == 1..MaxKey
ReqIds == 1..(MaxKey + 1)     \* MaxKey + 1 is an id no entity ever has

VARIABLES
  pc,             \* position of fetch_tennis_data
  delay,          \* argument of the asyncio.sleep the loop last entered
  cycle,          \* number of the cycle in flight (or last finished)
  upA, upB,       \* whether each provider answers in this cycle
  bets_data,      \* local of fetch_tennis_data, tagged with its fetch cycle
  rapid_data,     \* local of fetch_tennis_data, tagged with its fetch cycle
  merged_data,    \* local of fetch_tennis_data, tagged with its inputs' cycles
  tennis_matches, \* the global, tagged with the cycle that produced it
  failed_at,      \* step of this cycle that raised, or "none"
  store_at_start, \* value of tennis_matches when this cycle began
  published_at,   \* clock reading when tennis_matches was last assigned
  now,            \* wall clock
  g_pc, g_ts, g_resp,                          \* get_tennis_matches
  d_pc, d_id, d_list, d_idx, d_seen, d_result, \* get_match_details
  seen_cycle      \* cycle of the snapshot the latest response was read from

loopVars == <<pc, delay, cycle, upA, upB, bets_data, rapid_data, merged_data,
              tennis_matches, failed_at, store_at_start, published_at>>
gVars == <<g_pc, g_ts, g_resp>>
dVars == <<d_pc, d_id, d_list, d_idx, d_seen, d_result>>
vars == <<loopVars, now, gVars, dVars, seen_cycle>>

\* ---------------------------------------------------------------- helpers
RECURSIVE SortedSeq(_)
SortedSeq(S) ==
  IF S = {} THEN <<>>
  ELSE LET m == CHOOSE x \in S : \A y \in S : x <= y
       IN <<m>> \o SortedSeq(S \ {m})

Range(s) == {s[i] : i \in 1..Len(s)}

\* What the adapters' get_tennis_data() can return: a list of raw records,
\* each identified here by the real-world match it denotes.  BetsAPI reports
\* the first i matches, RapidAPI the last j, so that a match can be known to
\* both sources, to one, or to neither.
FeedsA == {SortedSeq(1..i) : i \in 0..MaxKey}
FeedsB == {SortedSeq((MaxKey - j + 1)..MaxKey) : j \in 0..MaxKey}

\* Failures an adapter or the merger can raise.
AdapterErrors == {"SourceUnavailable", "SourceFormatError"}
MergeErrors == {"MergeError"}

Entity(k, prov) == [match_id |-> k, provenance |-> prov]

\* TennisMerger.merge: one entity per real-world match, matched when both
\* sources report it, single-source otherwise, ordered by match_id.
Provenance(k, a, b) ==
  IF k \in Range(a) /\ k \in Range(b) THEN "matched"
  ELSE IF k \in Range(a) THEN "A" ELSE "B"

merge(a, b) ==
  LET ks == SortedSeq(Range(a) \cup Range(b))
  IN [i \in 1..Len(ks) |-> Entity(ks[i], Provenance(ks[i], a, b))]

InitStore_Seeded ==
  [matches |-> <<Entity(1, "A")>>, cycle |-> 0, from |-> <<0, 0>>]
InitStore == [matches |-> <<>>, cycle |-> 0, from |-> <<0, 0>>]
NoData == [records |-> <<>>, cycle |-> 0]
NoMatch == Entity(0, "none")
NoResult == [kind |-> "none", match |-> NoMatch]
NotFound == [kind |-> "not_found", match |-> NoMatch]
NoResp == [timestamp |-> 0, matches |-> <<>>, capture |-> 0, cycle |-> 0]

\* ------------------------------------------------------- the loop's choices
\* `except Exception as e` (line 118): which raised errors the clause catches.
Catches_OnlyUnavailable(err) == err = "SourceUnavailable"
Catches_NoMergeError(err) == err \in AdapterErrors
Catches(err) == err \in AdapterErrors \cup MergeErrors

\* Where control goes when step `stage` of the try block raises `err`.
OnRaise_SkipA(stage, err) ==
  IF stage = "fetchA" THEN "fetchB"
  ELSE IF Catches(err) THEN "sleep" ELSE "crashed"
OnRaise_SkipB(stage, err) ==
  IF stage = "fetchB" THEN "merge"
  ELSE IF Catches(err) THEN "sleep" ELSE "crashed"
OnRaise_Retry(stage, err) == IF Catches(err) THEN "fetchA" ELSE "crashed"
OnRaise(stage, err) == IF Catches(err) THEN "sleep" ELSE "crashed"

\* The sleep that ends a cycle: line 116 after a publish, line 121 on error.
SleepFor_Always60(outcome) == NormalDelay
SleepFor_Always10(outcome) == BackoffDelay
SleepFor(outcome) == IF outcome = "ok" THEN NormalDelay ELSE BackoffDelay

\* The except block (lines 118-121) does not assign tennis_matches.
StoreAfterError_Reset(store) == InitStore
StoreAfterError(store) == store

\* `tennis_matches = merged_data` under `global tennis_matches` (86, 112).
Publish_NoGlobal(store, merged) == store
Publish(store, merged) == merged

\* ------------------------------------------------------ the queries' choices
\* `for match in tennis_matches` (line 55): the iterator is bound to the list
\* the global named when the loop started; item i comes from that list.
IterItem_Reread(captured, store, i) ==
  IF i <= Len(store.matches)
    THEN [match |-> store.matches[i], cycle |-> store.cycle]
    ELSE [match |-> captured.matches[i], cycle |-> captured.cycle]
IterItem(captured, store, i) ==
  [match |-> captured.matches[i], cycle |-> captured.cycle]

\* `match.get("match_id") == match_id` (line 56).
IdMatches_Negated(match, id) == match.match_id # id
IdMatches(match, id) == match.match_id = id

\* `"timestamp": datetime.now().isoformat()` (line 47).
Timestamp(clock, capture) == clock

\* -------------------------------------------------------------------- Init
Init ==
  /\ pc = "fetchA" /\ delay = 0 /\ cycle = 1
  /\ upA \in BOOLEAN /\ upB \in BOOLEAN
  /\ bets_data = NoData /\ rapid_data = NoData
  /\ merged_data = InitStore
  /\ tennis_matches = InitStore
  /\ failed_at = "none"
  /\ store_at_start = InitStore
  /\ published_at = 0
  /\ now = 0
  /\ g_pc = "idle" /\ g_ts = 0 /\ g_resp = NoResp
  /\ d_pc = "idle" /\ d_id = 0 /\ d_list = InitStore /\ d_idx = 1
  /\ d_seen = <<>> /\ d_result = NoResult
  /\ seen_cycle = 0

\* ---------------------------------------------------------------- the loop
\* A step of the try block raises: control reaches the except clause, which
\* logs and enters asyncio.sleep(10).
Raise(stage, err) ==
  LET tgt == OnRaise(stage, err)
  IN /\ pc' = tgt
     /\ delay' = IF tgt = "sleep" THEN SleepFor("error") ELSE delay
     /\ failed_at' = stage
     /\ tennis_matches' = StoreAfterError(tennis_matches)

\* bets_data = await betsapi_fetcher.get_tennis_data()
FetchA ==
  /\ pc = "fetchA"
  /\ \/ /\ upA
        /\ \E f \in FeedsA : bets_data' = [records |-> f, cycle |-> cycle]
        /\ pc' = "fetchB"
        /\ UNCHANGED <<delay, failed_at, tennis_matches>>
     \/ /\ ~upA
        /\ \E err \in AdapterErrors : Raise("fetchA", err)
        /\ UNCHANGED bets_data
  /\ UNCHANGED <<cycle, upA, upB, rapid_data, merged_data, store_at_start,
                 published_at, now, gVars, dVars, seen_cycle>>

\* rapid_data = await rapid_fetcher.get_tennis_data()
FetchB ==
  /\ pc = "fetchB"
  /\ \/ /\ upB
        /\ \E f \in FeedsB : rapid_data' = [records |-> f, cycle |-> cycle]
        /\ pc' = "merge"
        /\ UNCHANGED <<delay, failed_at, tennis_matches>>
     \/ /\ ~upB
        /\ \E err \in AdapterErrors : Raise("fetchB", err)
        /\ UNCHANGED rapid_data
  /\ UNCHANGED <<cycle, upA, upB, bets_data, merged_data, store_at_start,
                 published_at, now, gVars, dVars, seen_cycle>>

\* merged_data = merger.merge(bets_data, rapid_data)
Merge ==
  /\ pc = "merge"
  /\ \/ /\ merged_data' = [matches |-> merge(bets_data.records,
                                               rapid_data.records),
                           cycle |-> cycle,
                           from |-> <<bets_data.cycle, rapid_data.cycle>>]
        /\ pc' = "publish"
        /\ UNCHANGED <<delay, failed_at, tennis_matches>>
     \/ /\ \E err \in MergeErrors : Raise("merge", err)
        /\ UNCHANGED merged_data
  /\ UNCHANGED <<cycle, upA, upB, bets_data, rapid_data, store_at_start,
                 published_at, now, gVars, dVars, seen_cycle>>

\* tennis_matches = merged_data, then await asyncio.sleep(60)
PublishStep ==
  /\ pc = "publish"
  /\ tennis_matches' = Publish(tennis_matches, merged_data)
  /\ published_at' = now
  /\ pc' = "sleep"
  /\ delay' = SleepFor("ok")
  /\ UNCHANGED <<cycle, upA, upB, bets_data, rapid_data, merged_data,
                 failed_at, store_at_start, now, gVars, dVars, seen_cycle>>

\* The sleep returns; `while True` starts the next cycle.
Wake ==
  /\ pc = "sleep"
  /\ cycle < MaxCycle
  /\ pc' = "fetchA"
  /\ cycle' = cycle + 1
  /\ upA' \in BOOLEAN /\ upB' \in BOOLEAN
  /\ failed_at' = "none"
  /\ store_at_start' = tennis_matches
  /\ UNCHANGED <<delay, bets_data, rapid_data, merged_data, tennis_matches,
                 published_at, now, gVars, dVars, seen_cycle>>

\* ------------------------------------------------------ get_tennis_matches
\* Both handlers are coroutines without an await, run by the server's one
\* event loop: a handler is entered only when no other is in progress.
ServerIdle == g_pc = "idle" /\ d_pc = "idle"

\* The handler is entered; line 45 logs len(tennis_matches).
GetMatchesStart ==
  /\ ServerIdle
  /\ g_pc' = "timestamp"
  /\ UNCHANGED <<g_ts, g_resp, loopVars, now, dVars, seen_cycle>>

\* "timestamp": datetime.now().isoformat()
GetMatchesTimestamp ==
  /\ g_pc = "timestamp"
  /\ g_ts' = Timestamp(now, published_at)
  /\ g_pc' = "matches"
  /\ UNCHANGED <<g_resp, loopVars, now, dVars, seen_cycle>>

\* "matches": tennis_matches, and the dict is returned.
GetMatchesReturn ==
  /\ g_pc = "matches"
  /\ g_resp' = [timestamp |-> g_ts, matches |-> tennis_matches.matches,
                capture |-> published_at, cycle |-> tennis_matches.cycle]
  /\ seen_cycle' = tennis_matches.cycle
  /\ g_pc' = "sent"
  /\ UNCHANGED <<g_ts, loopVars, now, dVars>>

\* The response has been delivered.
GetMatchesDone ==
  /\ g_pc = "sent"
  /\ g_pc' = "idle" /\ g_ts' = 0 /\ g_resp' = NoResp
  /\ UNCHANGED <<loopVars, now, dVars, seen_cycle>>

\* ------------------------------------------------------- get_match_details
\* The handler is entered and `for match in tennis_matches` takes its iterator.
GetDetailsStart ==
  /\ ServerIdle
  /\ \E id \in ReqIds : d_id' = id
  /\ d_list' = tennis_matches
  /\ d_idx' = 1
  /\ d_seen' = <<>>
  /\ d_result' = NoResult
  /\ d_pc' = "iter"
  /\ UNCHANGED <<loopVars, now, gVars, seen_cycle>>

\* One turn of the for loop, or its exhaustion.
GetDetailsStep ==
  /\ d_pc = "iter"
  /\ IF d_idx > Len(d_list.matches)
       THEN /\ d_result' = NotFound
            /\ d_pc' = "sent"
            /\ seen_cycle' = d_list.cycle
            /\ UNCHANGED <<d_idx, d_seen>>
       ELSE LET item == IterItem(d_list, tennis_matches, d_idx)
            IN /\ d_seen' = Append(d_seen, item)
               /\ IF IdMatches(item.match, d_id)
                    THEN /\ d_result' = [kind |-> "match", match |-> item.match]
                         /\ d_pc' = "sent"
                         /\ seen_cycle' = item.cycle
                         /\ UNCHANGED d_idx
                    ELSE /\ d_idx' = d_idx + 1
                         /\ UNCHANGED <<d_result, d_pc, seen_cycle>>
  /\ UNCHANGED <<d_id, d_list, loopVars, now, gVars>>

\* The response has been delivered.
GetDetailsDone ==
  /\ d_pc = "sent"
  /\ d_pc' = "idle" /\ d_id' = 0 /\ d_list' = InitStore /\ d_idx' = 1
  /\ d_seen' = <<>> /\ d_result' = NoResult
  /\ UNCHANGED <<loopVars, now, gVars, seen_cycle>>

\* ------------------------------------------------------------------- clock
Tick ==
  /\ now < MaxTime
  /\ now' = now + 1
  /\ UNCHANGED <<loopVars, gVars, dVars, seen_cycle>>

\* The loop thread and the server thread, interleaved at every step.
Next ==
  \/ FetchA \/ FetchB \/ Merge \/ PublishStep \/ Wake
  \/ GetMatchesStart \/ GetMatchesTimestamp \/ GetMatchesReturn
  \/ GetMatchesDone
  \/ GetDetailsStart \/ GetDetailsStep \/ GetDetailsDone

Spec == Init /\ [][Next]_vars

\* The loop and the all-matches query with the wall clock running.
NextTimed ==
  \/ FetchA \/ FetchB \/ Merge \/ PublishStep \/ Wake
  \/ GetMatchesStart \/ GetMatchesTimestamp \/ GetMatchesReturn
  \/ GetMatchesDone
  \/ Tick

SpecTimed == Init /\ [][NextTimed]_vars

\* The loop alone, running for ever: `while True` has no last cycle.  The
\* cycle number stops counting at MaxCycle; the loop does not stop.
WakeLive ==
  /\ pc = "sleep"
  /\ pc' = "fetchA"
  /\ cycle' = IF cycle < MaxCycle THEN cycle + 1 ELSE cycle
  /\ upA' \in BOOLEAN /\ upB' \in BOOLEAN
  /\ failed_at' = "none"
  /\ store_at_start' = tennis_matches
  /\ UNCHANGED <<delay, bets_data, rapid_data, merged_data, tennis_matches,
                 published_at, now, gVars, dVars, seen_cycle>>

NextLive == FetchA \/ FetchB \/ Merge \/ PublishStep \/ WakeLive

\* The loop's thread keeps being scheduled: every await and every sleep
\* returns, so a step of the loop that stays possible is eventually taken.
SpecLive == Init /\ [][NextLive]_vars /\ WF_vars(NextLive)

\* ================================================================ properties
LoopStep == FetchA \/ FetchB \/ Merge \/ PublishStep \/ Wake

\* The cycle in flight has raised.
CycleFailed == failed_at # "none"

\* Both providers are down in this cycle, or its merge raised.
TotalFailure == CycleFailed /\ ((~upA /\ ~upB) \/ failed_at = "merge")

\* s is a whole merge output (or the initial empty list).
IsSnapshot(s) ==
  \E a \in FeedsA, b \in FeedsB : s = merge(a, b)

\* C1: when both adapters fail in a cycle, or its merge raises, the cycle is
\* abandoned: tennis_matches is what it was when the cycle began, the loop is
\* in the 10 s backoff sleep (not the 60 s one), and the step that ends that
\* sleep starts the next cycle's fetch.
C1_TotalFailureAbandons ==
  /\ [](TotalFailure =>
          /\ pc = "sleep"
          /\ tennis_matches = store_at_start
          /\ delay = BackoffDelay
          /\ delay # NormalDelay)
  /\ [][(TotalFailure /\ pc' # pc) =>
          (pc' = "fetchA" /\ cycle' = cycle + 1)]_vars

C1_Witness ==
  /\ pc = "sleep" /\ TotalFailure /\ ~upA /\ ~upB
  /\ tennis_matches.matches # <<>>

\* C2 (as claimed): a cycle in which exactly one adapter fails still
\* publishes, in that cycle, the surviving source's records merged against
\* an empty list: single-source entities only.
C2_PartialFailurePublishes ==
  (pc = "sleep" /\ upA # upB) =>
     /\ tennis_matches.cycle = cycle
     /\ \A i \in 1..Len(tennis_matches.matches) :
          tennis_matches.matches[i].provenance # "matched"
     /\ upA => tennis_matches.matches = merge(bets_data.records, <<>>)

\* C3: the loop has no terminal state: whatever an adapter or the merger
\* raises, the loop never stops; a cycle that raised is in the backoff sleep,
\* and the loop always has a next step (up to the explored number of cycles).
C3_NoTerminalState ==
  /\ pc \in {"fetchA", "fetchB", "merge", "publish", "sleep"}
  /\ CycleFailed => (pc = "sleep" /\ delay = BackoffDelay)
  /\ cycle < MaxCycle => ENABLED LoopStep

C3_Witness ==
  /\ cycle >= 2 /\ pc = "sleep" /\ failed_at = "merge"
  /\ tennis_matches.cycle = 0

\* C4: what a query observes is one whole snapshot: every item the
\* match-by-id loop has visited comes, in order, from the one list the global
\* named when the loop began, whatever has been published since, and the
\* all-matches response carries a whole merge output.
C4_QueriesSeeOneSnapshot ==
  /\ Len(d_seen) <= Len(d_list.matches)
  /\ \A i \in 1..Len(d_seen) :
       /\ d_seen[i].cycle = d_list.cycle
       /\ d_seen[i].match = d_list.matches[i]
  /\ IsSnapshot(d_list.matches)
  /\ g_pc = "sent" => IsSnapshot(g_resp.matches)

C4_Witness ==
  /\ d_pc = "iter" /\ Len(d_seen) >= 1
  /\ tennis_matches.cycle > d_list.cycle
  /\ tennis_matches.matches # d_list.matches

\* C5 (as claimed): the timestamp of an all-matches response is the capture
\* time of the snapshot it returns.
C5_TimestampIsCaptureTime ==
  (g_pc = "sent" /\ g_resp.cycle > 0) => g_resp.timestamp = g_resp.capture

\* C6: tennis_matches is the output of the latest merge that returned (the
\* initial empty list before any), from the moment that cycle publishes; a
\* cycle that raises leaves it as it was when the cycle began.
C6_StoreIsLastSuccessfulMerge ==
  /\ pc # "publish" => tennis_matches = merged_data
  /\ pc = "publish" => tennis_matches = store_at_start
  /\ CycleFailed => tennis_matches = store_at_start

C6_Witness ==
  /\ CycleFailed /\ cycle >= 2
  /\ tennis_matches.cycle >= 1 /\ tennis_matches.matches # <<>>

\* C7: the match-by-id query returns an entity of the snapshot it read whose
\* match_id is the requested one when there is such an entity, and the
\* not-found payload when there is none; never an entity with another id.
C7_MatchById ==
  d_pc = "sent" =>
    LET hits == {i \in 1..Len(d_list.matches) :
                   d_list.matches[i].match_id = d_id}
    IN IF hits # {}
         THEN /\ d_result.kind = "match"
              /\ d_result.match.match_id = d_id
              /\ \E i \in hits : d_result.match = d_list.matches[i]
         ELSE d_result = NotFound

C7_Witness ==
  /\ d_pc = "sent" /\ d_result.kind = "match" /\ d_idx = 2
  /\ d_result.match.match_id = d_id

\* C8: a published snapshot is the merge of the two lists fetched in the
\* cycle that published it: never one source's list from an earlier cycle.
C8_SameCycleInputs ==
  /\ tennis_matches.from[1] = tennis_matches.from[2]
  /\ tennis_matches.from[1] = tennis_matches.cycle
  /\ (pc = "sleep" /\ ~CycleFailed) =>
        /\ tennis_matches.cycle = cycle
        /\ tennis_matches.matches =
             merge(bets_data.records, rapid_data.records)

C8_Witness ==
  /\ pc = "sleep" /\ ~CycleFailed /\ cycle = 2
  /\ store_at_start.cycle = 0
  /\ tennis_matches.matches # <<>>

\* C9: tennis_matches changes only in the loop's publish step, which binds
\* it to merged_data; the queries, on every path, leave it unchanged.
C9_OnlyPublishWrites ==
  [][tennis_matches' # tennis_matches =>
       /\ pc = "publish" /\ pc' = "sleep"
       /\ tennis_matches' = merged_data
       /\ UNCHANGED <<gVars, dVars>>]_vars

C9_Witness ==
  /\ d_pc = "sent" /\ d_result = NotFound
  /\ tennis_matches.cycle >= 1 /\ tennis_matches.matches # <<>>

\* C10: the cycle number of the snapshot tennis_matches holds never
\* decreases, and neither does the cycle number of the snapshot successive
\* responses were read from.
C10_PublicationsOrdered ==
  [][/\ tennis_matches'.cycle >= tennis_matches.cycle
     /\ seen_cycle' >= seen_cycle]_vars

C10_Witness ==
  /\ tennis_matches.cycle = 2 /\ store_at_start.cycle = 1
  /\ seen_cycle = 2

\* C11: within a cycle the steps run fetch, then merge, then publish: the
\* merge is reached only with both lists fetched in this cycle, the publish
\* only with this cycle's merge output, each step is entered from the one
\* before it, and a cycle whose fetch raised neither merges nor publishes.
C11_FetchMergePublishOrder ==
  /\ [](/\ pc = "merge" =>
             /\ bets_data.cycle = cycle /\ rapid_data.cycle = cycle
             /\ ~CycleFailed
        /\ pc = "publish" =>
             /\ merged_data.cycle = cycle
             /\ merged_data.from = <<cycle, cycle>>
             /\ ~CycleFailed
        /\ failed_at \in {"fetchA", "fetchB"} =>
             /\ pc = "sleep"
             /\ merged_data.cycle < cycle
             /\ tennis_matches.cycle < cycle)
  /\ [][/\ (pc' = "merge" /\ pc # "merge") => pc = "fetchB"
        /\ (pc' = "publish" /\ pc # "publish") => pc = "merge"
        /\ tennis_matches' # tennis_matches => pc = "publish"]_vars

C11_Witness ==
  /\ pc = "sleep" /\ failed_at = "fetchB" /\ cycle = 2
  /\ bets_data.cycle = 2 /\ rapid_data.cycle = 1
  /\ tennis_matches.cycle = 1

\* C12: the loop moves fetch A -> fetch B -> merge -> publish -> 60 s sleep
\* -> fetch A, and from any step that raises to the 10 s sleep -> fetch A: a
\* cycle that published sleeps 60 s and never 10 s, a cycle that raised
\* sleeps 10 s and never 60 s, and the two intervals differ.
C12_StateMachine ==
  /\ [](/\ NormalDelay # BackoffDelay
        /\ (pc = "sleep" /\ ~CycleFailed) =>
             (delay = 60 /\ delay # 10 /\ tennis_matches.cycle = cycle)
        /\ (pc = "sleep" /\ CycleFailed) =>
             (delay = 10 /\ delay # 60 /\ tennis_matches.cycle < cycle))
  /\ [][pc' # pc =>
          \/ pc = "fetchA" /\ pc' \in {"fetchB", "sleep"}
          \/ pc = "fetchB" /\ pc' \in {"merge", "sleep"}
          \/ pc = "merge" /\ pc' \in {"publish", "sleep"}
          \/ pc = "publish" /\ pc' = "sleep" /\ ~CycleFailed'
          \/ pc = "sleep" /\ pc' = "fetchA"]_vars

C12_Witness ==
  /\ pc = "sleep" /\ CycleFailed /\ delay = 10 /\ cycle = 2
  /\ store_at_start.cycle = 1

\* C13: with the loop's thread scheduled fairly, every cycle that raised is
\* followed by the start of a new fetch, and if from some point on no cycle
\* raises, cycles keep ending with a publish.
C13_RetryAndProgress ==
  /\ CycleFailed ~> (pc = "fetchA" /\ ~CycleFailed)
  /\ (<>[](~CycleFailed)) =>
        []<>(pc = "sleep" /\ ~CycleFailed /\ tennis_matches = merged_data
             /\ delay = NormalDelay)

C13_Witness ==
  /\ pc = "fetchA" /\ cycle = 2 /\ tennis_matches.cycle = 0
  /\ merged_data.cycle = 0

\* C14: the adapters are called one after the other, BetsAPI first: the
\* RapidAPI fetch is entered only from a BetsAPI fetch that returned in the
\* same cycle, and in a cycle whose BetsAPI fetch raised the RapidAPI
\* fetcher is never called.
C14_AdaptersSequential ==
  /\ [](/\ pc = "fetchA" =>
             (bets_data.cycle < cycle /\ rapid_data.cycle < cycle)
        /\ pc = "fetchB" =>
             /\ upA /\ ~CycleFailed
             /\ bets_data.cycle = cycle /\ rapid_data.cycle < cycle
        /\ failed_at = "fetchA" =>
             (pc = "sleep" /\ rapid_data.cycle < cycle))
  /\ [][/\ (pc' = "fetchB" /\ pc # "fetchB") =>
             (pc = "fetchA" /\ bets_data'.cycle = cycle)
        /\ rapid_data' # rapid_data =>
             (pc = "fetchB" /\ bets_data.cycle = cycle /\ ~CycleFailed)
        /\ failed_at = "fetchA" =>
             (rapid_data' = rapid_data /\ pc' \in {"sleep", "fetchA"})]_vars

C14_Witness ==
  /\ pc = "sleep" /\ failed_at = "fetchA" /\ ~upA /\ upB
  /\ cycle = 2 /\ rapid_data.cycle = 1

\* No cycle has published yet.
NoPublishYet == tennis_matches.cycle = 0

\* C15: until the first cycle publishes, tennis_matches is the empty list:
\* an all-matches response read then has no matches and a match-by-id query
\* that read it returns the not-found payload, whatever the id and however
\* many cycles have raised.
C15_EmptyBeforeFirstPublish ==
  /\ NoPublishYet => tennis_matches.matches = <<>>
  /\ (g_pc = "sent" /\ g_resp.cycle = 0) => g_resp.matches = <<>>
  /\ (d_pc = "sent" /\ d_list.cycle = 0) =>
        (d_list.matches = <<>> /\ d_seen = <<>> /\ d_result = NotFound)

C15_Witness ==
  /\ NoPublishYet /\ cycle = 2 /\ CycleFailed
  /\ d_pc = "sent" /\ d_list.cycle = 0 /\ d_result = NotFound

\* C16: the loop is one flow: a cycle assigns tennis_matches at most once,
\* and a fetch starts only when a sleep of 60 s or 10 s has returned, so two
\* fetch attempts are never back to back, not even after a failure.
C16_OneCycleAtATime ==
  /\ [](/\ tennis_matches.cycle <= cycle
        /\ pc = "sleep" => delay \in {NormalDelay, BackoffDelay})
  /\ [][/\ (pc' = "fetchA" /\ (pc # "fetchA" \/ cycle' # cycle
                                \/ failed_at' # failed_at)) =>
             /\ pc = "sleep"
             /\ delay \in {NormalDelay, BackoffDelay}
             /\ cycle' = cycle + 1
        /\ cycle' # cycle => (pc = "sleep" /\ pc' = "fetchA")
        /\ tennis_matches' # tennis_matches =>
             (tennis_matches.cycle < cycle /\ tennis_matches'.cycle = cycle)
       ]_vars

C16_Witness ==
  /\ pc = "fetchA" /\ cycle = 2 /\ delay = BackoffDelay
  /\ tennis_matches.cycle = 0
====
